---- MODULE Spec2Model ----
(***************************************************************************)
(* batchelor (src/src/lib.rs): batch globbed inputs into submit jobs.      *)
(*                                                                         *)
(* Strings are sequences of one-character strings, so that prefix tests,   *)
(* quoting, tokenizing and substitution are computed character by          *)
(* character as the Rust code computes them on bytes.                      *)
(***************************************************************************)
EXTENDS Integers, Sequences, FiniteSets, TLC

VARIABLES
    pc,           \* position of the program / of the function under check
    str,          \* shell_quote: the argument s
    quoted,       \* shell_quote: the returned string
    input_flag,   \* Cli.input_flag
    script_args,  \* Cli.script_args
    input,        \* write_job_script: the input of the line being formatted
    branch,       \* write_job_script: which arm of the if-chain formatted it
    args,         \* write_job_script: the argument vector after the worker path
    line,         \* write_job_script: the invocation line (without its "\n")
    cli,          \* the other fields of Cli
    prior,        \* history: the entries under cli.out_dir before the run
    fs,           \* the entries directly under cli.out_dir
    expanded,     \* what expand_inputs returned
    inputs,       \* run: the sorted inputs
    groups,       \* run: the slices split_evenly returned
    idx,          \* run: the index of the loop over the groups
    out,          \* the lines run printed on stdout
    spawned,      \* the child processes submit_job started, in order
    hist,         \* history: the steps run has completed, in order
    err           \* the error run returned ("" while it has returned none)

pureVars == <<str, quoted, input, branch, args, line>>
cliVars == <<input_flag, script_args, cli>>
runVars == <<cli, prior, fs, expanded, inputs, groups, idx, out, spawned, hist, err>>
vars == <<pc, str, quoted, input_flag, script_args, input, branch, args, line,
          cli, prior, fs, expanded, inputs, groups, idx, out, spawned, hist, err>>

----------------------------------------------------------------------------
(* Bounds of the model                                                      *)

MaxStrLen == 4
MaxFlagLen == 3
MaxArgs == 2
MaxBatch == 3
MaxInputs == 3

----------------------------------------------------------------------------
(* Characters and strings                                                   *)

\* The character U+0060 (the lexer accepts no backtick inside a string).
Backtick == "bq"

Digits == {"0", "1", "2", "3", "4", "5", "6", "7", "8", "9"}

Lower == {"a", "b", "c", "d", "e", "f", "g", "h", "i", "j", "k", "l", "m",
          "n", "o", "p", "q", "r", "s", "t", "u", "v", "w", "x", "y", "z"}

Upper == {"A", "B", "C", "D", "E", "F", "G", "H", "I", "J", "K", "L", "M",
          "N", "O", "P", "Q", "R", "S", "T", "U", "V", "W", "X", "Y", "Z"}

\* u8::is_ascii_alphanumeric
IsAsciiAlphanumeric(c) == c \in Digits \cup Lower \cup Upper

\* b"@%_+=:,./-"
SafePunct == {"@", "%", "_", "+", "=", ":", ",", ".", "/", "-"}

DigitVal(c) ==
    CASE c = "0" -> 0 [] c = "1" -> 1 [] c = "2" -> 2 [] c = "3" -> 3
      [] c = "4" -> 4 [] c = "5" -> 5 [] c = "6" -> 6 [] c = "7" -> 7
      [] c = "8" -> 8 [] c = "9" -> 9

\* All strings over alphabet A of length at most n.
StringsUpTo(A, n) == UNION {[1..k -> A] : k \in 0..n}

\* str::starts_with
StartsWith(s, p) == Len(s) >= Len(p) /\ SubSeq(s, 1, Len(p)) = p

\* str::ends_with
EndsWith(s, p) == Len(s) >= Len(p) /\ SubSeq(s, Len(s) - Len(p) + 1, Len(s)) = p

\* str::contains
Contains(s, p) == \E i \in 1..(Len(s) - Len(p) + 1) : SubSeq(s, i, i + Len(p) - 1) = p

\* str::replace: every non-overlapping match, left to right.
RECURSIVE Replace(_, _, _)
Replace(s, from, to) ==
    IF s = <<>> THEN <<>>
    ELSE IF StartsWith(s, from)
         THEN to \o Replace(SubSeq(s, Len(from) + 1, Len(s)), from, to)
         ELSE <<Head(s)>> \o Replace(Tail(s), from, to)

\* [String]::join
RECURSIVE Join(_, _)
Join(ws, sep) ==
    IF ws = <<>> THEN <<>>
    ELSE IF Len(ws) = 1 THEN ws[1]
    ELSE ws[1] \o sep \o Join(Tail(ws), sep)

----------------------------------------------------------------------------
(* shell_quote                                                              *)

shell_quote_unescaped(s) ==
    IF s = <<>> THEN <<"'", "'">>
    ELSE IF \A i \in 1..Len(s) : IsAsciiAlphanumeric(s[i]) \/ s[i] \in SafePunct
         THEN s
         ELSE <<"'">> \o s \o <<"'">>

shell_quote(s) ==
    IF s = <<>> THEN <<"'", "'">>
    ELSE IF \A i \in 1..Len(s) : IsAsciiAlphanumeric(s[i]) \/ s[i] \in SafePunct
         THEN s
         ELSE <<"'">> \o Replace(s, <<"'">>, <<"'", "\\", "'", "'">>) \o <<"'">>

\* Path::to_string_lossy is the identity on the UTF-8 paths of the model.
shell_quote_os(s) == shell_quote(s)

shell_quote_path(path) == shell_quote_os(path)

----------------------------------------------------------------------------
(* shlex::split, the tokenizer write_job_script and submit_job call        *)

Whitespace == {" ", "\t", "\n"}

ShlexFail == [ok |-> FALSE, words |-> <<>>]

\* The Shlex iterator: "skip" is next() before a word, "comment" its '#'
\* loop, "word" parse_word, "single" parse_single, "double" parse_double.
RECURSIVE ShlexRun(_, _, _, _, _)
ShlexRun(s, i, mode, cur, words) ==
    IF i > Len(s)
    THEN CASE mode \in {"skip", "comment"} -> [ok |-> TRUE, words |-> words]
           [] mode = "word" -> [ok |-> TRUE, words |-> Append(words, cur)]
           [] OTHER -> ShlexFail
    ELSE LET c == s[i] IN
         CASE mode = "skip" ->
                IF c \in Whitespace THEN ShlexRun(s, i + 1, "skip", <<>>, words)
                ELSE IF c = "#" THEN ShlexRun(s, i + 1, "comment", <<>>, words)
                ELSE ShlexRun(s, i, "word", <<>>, words)
           [] mode = "comment" ->
                IF c = "\n" THEN ShlexRun(s, i + 1, "skip", <<>>, words)
                ELSE ShlexRun(s, i + 1, "comment", <<>>, words)
           [] mode = "word" ->
                IF c = "\"" THEN ShlexRun(s, i + 1, "double", cur, words)
                ELSE IF c = "'" THEN ShlexRun(s, i + 1, "single", cur, words)
                ELSE IF c = "\\"
                     THEN IF i + 1 > Len(s) THEN ShlexFail
                          ELSE IF s[i + 1] = "\n"
                               THEN ShlexRun(s, i + 2, "word", cur, words)
                               ELSE ShlexRun(s, i + 2, "word", Append(cur, s[i + 1]), words)
                ELSE IF c \in Whitespace
                     THEN ShlexRun(s, i + 1, "skip", <<>>, Append(words, cur))
                ELSE ShlexRun(s, i + 1, "word", Append(cur, c), words)
           [] mode = "single" ->
                IF c = "'" THEN ShlexRun(s, i + 1, "word", cur, words)
                ELSE ShlexRun(s, i + 1, "single", Append(cur, c), words)
           [] mode = "double" ->
                IF c = "\"" THEN ShlexRun(s, i + 1, "word", cur, words)
                ELSE IF c = "\\"
                     THEN IF i + 1 > Len(s) THEN ShlexFail
                          ELSE IF s[i + 1] \in {"$", Backtick, "\"", "\\"}
                               THEN ShlexRun(s, i + 2, "double", Append(cur, s[i + 1]), words)
                          ELSE IF s[i + 1] = "\n"
                               THEN ShlexRun(s, i + 2, "double", cur, words)
                          ELSE ShlexRun(s, i + 2, "double", cur \o <<"\\", s[i + 1]>>, words)
                ELSE ShlexRun(s, i + 1, "double", Append(cur, c), words)

\* shlex::split(s): None is [ok |-> FALSE], Some(words) is [ok |-> TRUE, words].
ShlexSplit(s) == ShlexRun(s, 1, "skip", <<>>, <<>>)

----------------------------------------------------------------------------
(* parse_positional_slot and parse_template_tokens                          *)

None == [some |-> FALSE, val |-> 0]
Some(v) == [some |-> TRUE, val |-> v]

\* usize::MAX on a 64-bit target, as decimal digits.
UsizeMaxDigits == <<"1", "8", "4", "4", "6", "7", "4", "4", "0", "7", "3", "7", "0", "9", "5", "5", "1", "6", "1", "5">>

RECURSIVE StripLeadingZeros(_)
StripLeadingZeros(d) ==
    IF d # <<>> /\ Head(d) = "0" THEN StripLeadingZeros(Tail(d)) ELSE d

\* a > b for digit strings of the same length
RECURSIVE DigitsGreater(_, _)
DigitsGreater(a, b) ==
    IF a = <<>> THEN FALSE
    ELSE IF DigitVal(Head(a)) # DigitVal(Head(b))
         THEN DigitVal(Head(a)) > DigitVal(Head(b))
         ELSE DigitsGreater(Tail(a), Tail(b))

\* The checked multiply-and-add of from_str_radix overflows exactly when the
\* number exceeds usize::MAX.
OverflowsUsize(d) ==
    LET sig == StripLeadingZeros(d) IN
    \/ Len(sig) > Len(UsizeMaxDigits)
    \/ Len(sig) = Len(UsizeMaxDigits) /\ DigitsGreater(sig, UsizeMaxDigits)

RECURSIVE DecimalValue(_)
DecimalValue(d) ==
    IF d = <<>> THEN 0
    ELSE 10 * DecimalValue(SubSeq(d, 1, Len(d) - 1)) + DigitVal(d[Len(d)])

\* str::parse::<usize>: an optional '+', then one or more decimal digits, the
\* value within usize.
ParseUsize(t) ==
    LET d == IF t # <<>> /\ Head(t) = "+" THEN Tail(t) ELSE t IN
    IF d = <<>> \/ \E i \in 1..Len(d) : d[i] \notin Digits THEN None
    ELSE IF OverflowsUsize(d) THEN None
    ELSE Some(DecimalValue(d))

parse_positional_slot(flag) ==
    IF ~StartsWith(flag, <<"$">>) THEN None
    ELSE LET n == ParseUsize(Tail(flag)) IN
         IF ~n.some THEN None
         ELSE IF n.val = 0 THEN None ELSE Some(n.val)

parse_template_tokens_unsplit(flag) == <<flag>>

parse_template_tokens(flag) ==
    LET r == ShlexSplit(flag) IN IF r.ok THEN r.words ELSE <<flag>>

----------------------------------------------------------------------------
(* write_job_script: one invocation line                                    *)

\* The canonicalized worker script path.
ScriptAbs == <<"/", "w", ".", "s", "h">>

QuoteAll(ws) == [i \in 1..Len(ws) |-> shell_quote(ws[i])]

Min(a, b) == IF a < b THEN a ELSE b

\* Vec::insert(at, x), at zero-based
InsertAt(v, at, x) == SubSeq(v, 1, at) \o <<x>> \o SubSeq(v, at + 1, Len(v))

\* slot.saturating_sub(1).min(args.len())
SlotIndexOneBased(slot, len) == Min(slot, len)

SlotIndex(slot, len) == Min(IF slot = 0 THEN 0 ELSE slot - 1, len)

\* The arm of the if-chain that formats the lines of a script.
Classify(flag) ==
    LET template_tokens == parse_template_tokens(flag)
        has_template == \E i \in 1..Len(template_tokens) :
                            Contains(template_tokens[i], <<"$", "1">>)
        positional_slot == parse_positional_slot(flag)
    IN  IF positional_slot.some THEN "slot"
        ELSE IF has_template THEN "template"
        ELSE "flag"

\* The argument vector the line of one input holds after the worker path.
InvocationArgs(flag, in, sargs) ==
    LET script_args_q == QuoteAll(sargs)
        input_q == shell_quote(in)
        template_tokens == parse_template_tokens(flag)
        positional_slot == parse_positional_slot(flag)
    IN  CASE Classify(flag) = "slot" ->
               InsertAt(script_args_q,
                        SlotIndex(positional_slot.val, Len(script_args_q)),
                        input_q)
          [] Classify(flag) = "template" ->
               [i \in 1..Len(template_tokens) |->
                    shell_quote(Replace(template_tokens[i], <<"$", "1">>, in))]
               \o script_args_q
          [] OTHER -> <<shell_quote(flag), input_q>> \o script_args_q

\* The line pushed for one input, without its "\n".
InvocationLine(flag, in, sargs) ==
    LET a == InvocationArgs(flag, in, sargs)
        script_q == shell_quote_os(ScriptAbs)
    IN  IF a = <<>> THEN <<"b", "a", "s", "h", " ">> \o script_q
        ELSE <<"b", "a", "s", "h", " ">> \o script_q \o <<" ">> \o Join(a, <<" ">>)

----------------------------------------------------------------------------
(* Specification of shell_quote over bounded strings                        *)

NoCli == [batch |-> 0, dry_run |-> FALSE, keep |-> FALSE, submit |-> <<>>,
          job_name_prefix |-> <<>>]

QuoteAlphabet == {"a", "'", " ", "$", "\\", "\"", Backtick, "#"}

Unset == <<"<unset>">>

InitQuote ==
    /\ pc = "quote"
    /\ str \in StringsUpTo(QuoteAlphabet, MaxStrLen)
    /\ quoted = Unset
    /\ input_flag = <<>> /\ script_args = <<>> /\ input = <<>>
    /\ branch = "none" /\ args = <<>> /\ line = <<>>
    /\ cli = NoCli /\ prior = {} /\ fs = {} /\ expanded = <<>> /\ inputs = <<>> /\ groups = <<>>
    /\ idx = 0 /\ out = <<>> /\ spawned = <<>> /\ hist = <<>> /\ err = ""

QuoteStep ==
    /\ pc = "quote"
    /\ pc' = "quoted"
    /\ quoted' = shell_quote(str)
    /\ UNCHANGED <<str, input_flag, script_args, input, branch, args, line>>
    /\ UNCHANGED runVars

NextQuote == QuoteStep

SpecQuote == InitQuote /\ [][NextQuote]_vars

----------------------------------------------------------------------------
(* Specification of the line formatter over bounded conventions             *)

FlagAlphabet == {"$", "0", "1", "2", "+", " ", "'"}

S3Flag == <<"-", "i", " ", "$", "1", " ", "-", "o", " ", "o", "u", "t", "/", "$", "1", ".", "d", "o", "n", "e">>

NamedFlags ==
    {<<"-", "-", "i", "n", "p", "u", "t">>, <<"-", "-", "f", "o", "o">>, <<"e", "c", "h", "o", " ", "$", "1", " ", "d", "o", "n", "e">>, S3Flag,
     <<"$", "1", "8", "4", "4", "6", "7", "4", "4", "0", "7", "3", "7", "0", "9", "5", "5", "1", "6", "1", "6">>, <<"$", "1", "8", "4", "4", "6", "7", "4", "4", "0", "7", "3", "7", "0", "9", "5", "5", "1", "6", "1", "5", "x">>}

ArgTokens == {<<"f", "o", "o">>, <<"b", " ", "r">>}

InputTokens == {<<"x", ".", "d", "a", "t">>, <<"o", "n", "e">>, <<"t", "w", "o">>, <<"a", "'", "b">>}

InitFormat ==
    /\ pc = "format"
    /\ input_flag \in StringsUpTo(FlagAlphabet, MaxFlagLen) \cup NamedFlags
    /\ script_args \in StringsUpTo(ArgTokens, MaxArgs)
    /\ input \in InputTokens
    /\ branch = "none" /\ args = <<>> /\ line = <<>>
    /\ str = <<>> /\ quoted = Unset
    /\ cli = NoCli /\ prior = {} /\ fs = {} /\ expanded = <<>> /\ inputs = <<>> /\ groups = <<>>
    /\ idx = 0 /\ out = <<>> /\ spawned = <<>> /\ hist = <<>> /\ err = ""

FormatStep ==
    /\ pc = "format"
    /\ pc' = "formatted"
    /\ branch' = Classify(input_flag)
    /\ args' = InvocationArgs(input_flag, input, script_args)
    /\ line' = InvocationLine(input_flag, input, script_args)
    /\ UNCHANGED <<str, quoted, input_flag, script_args, input>>
    /\ UNCHANGED runVars

NextFormat == FormatStep

SpecFormat == InitFormat /\ [][NextFormat]_vars

----------------------------------------------------------------------------
(* run: helpers                                                             *)

\* The printable ASCII characters in byte order, from 32 (space) to 126.
Ascii == <<" ", "!", "\"", "#", "$", "%", "&", "'", "(", ")", "*", "+",
          ",", "-", ".", "/", "0", "1", "2", "3", "4", "5", "6", "7",
          "8", "9", ":", ";", "<", "=", ">", "?", "@", "A", "B", "C",
          "D", "E", "F", "G", "H", "I", "J", "K", "L", "M", "N", "O",
          "P", "Q", "R", "S", "T", "U", "V", "W", "X", "Y", "Z", "[",
          "\\", "]", "^", "_", Backtick, "a", "b", "c", "d", "e", "f", "g",
          "h", "i", "j", "k", "l", "m", "n", "o", "p", "q", "r", "s",
          "t", "u", "v", "w", "x", "y", "z", "{", "|", "}", "~">>

ByteOf(c) == 31 + (CHOOSE i \in 1..Len(Ascii) : Ascii[i] = c)

\* Ord for String: bytewise lexicographic, a proper prefix first.
RECURSIVE StrLess(_, _)
StrLess(a, b) ==
    IF b = <<>> THEN FALSE
    ELSE IF a = <<>> THEN TRUE
    ELSE IF Head(a) # Head(b) THEN ByteOf(Head(a)) < ByteOf(Head(b))
    ELSE StrLess(Tail(a), Tail(b))

RECURSIVE InsertSorted(_, _)
InsertSorted(sorted, x) ==
    IF sorted = <<>> THEN <<x>>
    ELSE IF StrLess(x, Head(sorted)) THEN <<x>> \o sorted
    ELSE <<Head(sorted)>> \o InsertSorted(Tail(sorted), x)

\* Vec<String>::sort (stable, ascending)
RECURSIVE SortStrings(_)
SortStrings(l) ==
    IF l = <<>> THEN <<>>
    ELSE InsertSorted(SortStrings(SubSeq(l, 1, Len(l) - 1)), l[Len(l)])

\* The loop of split_evenly from group i (zero-based) on.
RECURSIVE SplitFrom(_, _, _, _, _)
SplitFrom(items, ngroups, i, start, acc) ==
    IF i >= ngroups THEN acc
    ELSE LET base == Len(items) \div ngroups
             remainder == Len(items) % ngroups
             size == IF i < remainder THEN base + 1 ELSE base
             end == start + size
         IN  SplitFrom(items, ngroups, i + 1, end,
                       Append(acc, SubSeq(items, start + 1, end)))

\* The loop of a split that gives the remainder to the last groups.
RECURSIVE SplitFromTail(_, _, _, _, _)
SplitFromTail(items, ngroups, i, start, acc) ==
    IF i >= ngroups THEN acc
    ELSE LET base == Len(items) \div ngroups
             remainder == Len(items) % ngroups
             size == IF i >= ngroups - remainder THEN base + 1 ELSE base
             end == start + size
         IN  SplitFromTail(items, ngroups, i + 1, end,
                           Append(acc, SubSeq(items, start + 1, end)))

split_evenly_tail(items, ngroups) == SplitFromTail(items, ngroups, 0, 0, <<>>)

split_evenly(items, ngroups) == SplitFrom(items, ngroups, 0, 0, <<>>)

\* cli.batch.min(inputs.len())
batch_count(batch, n) == Min(batch, n)

DigitChar(d) == CHOOSE c \in Digits : DigitVal(c) = d

RECURSIVE DecimalDigits(_)
DecimalDigits(n) ==
    IF n < 10 THEN <<DigitChar(n)>>
    ELSE Append(DecimalDigits(n \div 10), DigitChar(n % 10))

\* format!("{:04}", n)
ZeroPad4(n) ==
    LET d == DecimalDigits(n) IN
    [i \in 1..(IF Len(d) < 4 THEN 4 - Len(d) ELSE 0) |-> "0"] \o d

\* cli.out_dir (its default value)
OutDir == <<".", "b", "a", "t", "c", "h", "e", "l", "o", "r">>

BatchSuffix == <<".", "b", "a", "t", "c", "h", ".", "s", "h">>

\* format!("{}-{:04}", cli.job_name_prefix, batch_idx)
JobName(prefix, batch_idx) == prefix \o <<"-">> \o ZeroPad4(batch_idx)

\* format!("{}.batch.sh", job_name)
JobScriptName(prefix, batch_idx) == JobName(prefix, batch_idx) \o BatchSuffix

\* cli.out_dir.join(..)
JobScriptPath(prefix, batch_idx) == OutDir \o <<"/">> \o JobScriptName(prefix, batch_idx)

\* The text write_job_script builds, as its lines (each ends with "\n").
ScriptText(flag, chunk, sargs) ==
    <<<<"#", "!", "/", "u", "s", "r", "/", "b", "i", "n", "/", "e", "n", "v", " ", "b", "a", "s", "h">>, <<"s", "e", "t", " ", "-", "e", "u", "o", " ", "p", "i", "p", "e", "f", "a", "i", "l">>, <<>>>>
    \o [i \in 1..Len(chunk) |-> InvocationLine(flag, chunk[i], sargs)]

\* The permission bits write_job_script sets, and those of a file whose bits
\* it has not set.
Mode755 == "0o755"
ModeUnset == "unset"

FileEntry(name, origin, text, mode) ==
    [name |-> name, kind |-> "file", origin |-> origin, text |-> text, mode |-> mode]

DirEntry(name) ==
    [name |-> name, kind |-> "dir", origin |-> "prior", text |-> <<>>, mode |-> Mode755]

\* fs::write (create or truncate), then set_permissions
WriteFile(dir, name, text, mode) ==
    {e \in dir : e.name # name} \cup {FileEntry(name, "run", text, mode)}

\* fs::remove_file
RemoveFile(dir, name) == {e \in dir : e.name # name}

\* The entries cleanup_old_batch_scripts removes.
IsOldBatchScript(e, prefix) ==
    /\ e.kind = "file"
    /\ StartsWith(e.name, prefix \o <<"-">>)
    /\ EndsWith(e.name, BatchSuffix)

CleanupTargets(dir, prefix) == {e \in dir : IsOldBatchScript(e, prefix)}

\* println!("Found {} input files. Creating {} job(s).", ..)
FoundLine(n, k) ==
    <<"F", "o", "u", "n", "d", " ">> \o DecimalDigits(n) \o <<" ", "i", "n", "p", "u", "t", " ", "f", "i", "l", "e", "s", ".", " ", "C", "r", "e", "a", "t", "i", "n", "g", " ">>
    \o DecimalDigits(k) \o <<" ", "j", "o", "b", "(", "s", ")", ".">>

DryRunLineQuotedSubmit(submit, path) ==
    <<"[", "d", "r", "y", "-", "r", "u", "n", "]", " ">> \o shell_quote(submit) \o <<" ">> \o shell_quote_path(path)

\* println!("[dry-run] {} {}", cli.submit, shell_quote_path(&job_script_path))
DryRunLine(submit, path) ==
    <<"[", "d", "r", "y", "-", "r", "u", "n", "]", " ">> \o submit \o <<" ">> \o shell_quote_path(path)

\* What the environment does with Command::output(): the program cannot be
\* started, or it runs and exits with status zero or not.
SpawnOutcomes == {"spawn_error", "exit_zero", "exit_nonzero"}

\* submit_job that takes any exit status for success.
submit_job_unchecked(submit, job_script, outcome) ==
    LET parts == ShlexSplit(submit) IN
    IF ~parts.ok THEN [result |-> "SubmitParse", spawn |-> FALSE, argv |-> <<>>]
    ELSE IF parts.words = <<>>
         THEN [result |-> "SubmitEmpty", spawn |-> FALSE, argv |-> <<>>]
    ELSE IF outcome = "spawn_error"
         THEN [result |-> "Io", spawn |-> FALSE, argv |-> <<>>]
    ELSE [result |-> "Ok", spawn |-> TRUE, argv |-> Append(parts.words, job_script)]

\* submit_job: its result, whether a child process ran and with which argv.
submit_job(submit, job_script, outcome) ==
    LET parts == ShlexSplit(submit) IN
    IF ~parts.ok THEN [result |-> "SubmitParse", spawn |-> FALSE, argv |-> <<>>]
    ELSE IF parts.words = <<>>
         THEN [result |-> "SubmitEmpty", spawn |-> FALSE, argv |-> <<>>]
    ELSE IF outcome = "spawn_error"
         THEN [result |-> "Io", spawn |-> FALSE, argv |-> <<>>]
    ELSE IF outcome = "exit_zero"
         THEN [result |-> "Ok", spawn |-> TRUE, argv |-> Append(parts.words, job_script)]
    ELSE [result |-> "SubmitFailed", spawn |-> TRUE,
          argv |-> Append(parts.words, job_script)]

\* if !cli.keep { fs::remove_file(..) }, with the test dropped
RemovesAfterSubmitAlways(keep) == TRUE

\* if !cli.keep { fs::remove_file(..) }
RemovesAfterSubmit(keep) == ~keep

\* if cli.dry_run { .. } else { .. }, with the test inverted
AfterEmitPcInverted(dry_run) == IF dry_run THEN "submit" ELSE "dryrun"

\* if cli.dry_run { .. } else { .. }
AfterEmitPc(dry_run) == IF dry_run THEN "dryrun" ELSE "submit"

\* The position after iteration i of the loop over the groups.
LoopPc(i, gs) == IF i < Len(gs) THEN "emit" ELSE "done"

Event(ev, g) == [ev |-> ev, g |-> g]

----------------------------------------------------------------------------
(* run: the state machine                                                   *)

InputNames == {<<"b">>, <<"a", " ", "c">>}

Submits == {<<"s", "b", "a", "t", "c", "h", " ", "-", "q">>, <<>>, <<"s", "b", "a", "t", "c", "h", " ", "'", "x">>}

\* The values of cli.job_name_prefix
Prefixes == {<<"p">>}

\* What the output directory may hold before the run.
PriorEntries ==
    {FileEntry(<<"p", "-", "0", "0", "0", "2", ".", "b", "a", "t", "c", "h", ".", "s", "h">>, "prior", <<<<"o", "l", "d">>>>, Mode755),
     FileEntry(<<"p", "-", "q", "-", "0", "0", "0", "1", ".", "b", "a", "t", "c", "h", ".", "s", "h">>, "prior", <<<<"o", "l", "d">>>>, Mode755),
     FileEntry(<<"p", "-", "0", "0", "0", "1", ".", "l", "o", "g">>, "prior", <<<<"l", "o", "g">>>>, ModeUnset),
     DirEntry(<<"p", "-", "0", "0", "0", "3", ".", "b", "a", "t", "c", "h", ".", "s", "h">>)}

InitRun ==
    /\ pc = "start"
    /\ cli \in [batch : 0..MaxBatch, dry_run : BOOLEAN, keep : BOOLEAN,
                submit : Submits, job_name_prefix : Prefixes]
    /\ input_flag = <<"-", "-", "i", "n", "p", "u", "t">>
    /\ script_args = <<>>
    /\ prior \in SUBSET PriorEntries
    /\ fs = prior
    /\ expanded = <<>> /\ inputs = <<>> /\ groups = <<>> /\ idx = 0
    /\ out = <<>> /\ spawned = <<>> /\ hist = <<>> /\ err = ""
    /\ str = <<>> /\ quoted = Unset /\ input = <<>>
    /\ branch = "none" /\ args = <<>> /\ line = <<>>

Fail(kind) == pc' = "error" /\ err' = kind

\* lib.rs 55-70: the checks, expand_inputs and the sort
Validate ==
    /\ pc = "start"
    /\ UNCHANGED <<pureVars, cliVars, prior, fs, groups, idx, out, spawned, hist>>
    /\ \/ /\ cli.batch = 0
          /\ Fail("BadConfig")
          /\ UNCHANGED <<expanded, inputs>>
       \/ /\ cli.batch # 0
          /\ \E kind \in {"MissingScript", "Io", "Glob"} : Fail(kind)
          /\ UNCHANGED <<expanded, inputs>>
       \/ /\ cli.batch # 0
          /\ \E l \in StringsUpTo(InputNames, MaxInputs) :
                /\ expanded' = l
                /\ IF l = <<>>
                   THEN Fail("NoInputs") /\ UNCHANGED inputs
                   ELSE /\ inputs' = SortStrings(l)
                        /\ pc' = "cleanup"
                        /\ UNCHANGED err

\* lib.rs 71-72: create_dir_all and cleanup_old_batch_scripts
Cleanup ==
    /\ pc = "cleanup"
    /\ UNCHANGED <<pureVars, cliVars, prior, expanded, inputs, groups, idx, out, spawned>>
    /\ LET targets == CleanupTargets(fs, cli.job_name_prefix) IN
       \/ /\ fs' = fs \ targets
          /\ hist' = Append(hist, Event("cleanup", 0))
          /\ pc' = "split"
          /\ UNCHANGED err
       \/ \E removed \in SUBSET targets :
             /\ fs' = fs \ removed
             /\ Fail("Io")
             /\ UNCHANGED hist

\* lib.rs 74-81: the group count, the progress line and split_evenly
Split ==
    /\ pc = "split"
    /\ UNCHANGED <<pureVars, cliVars, prior, fs, expanded, inputs, spawned, hist, err>>
    /\ LET k == batch_count(cli.batch, Len(inputs)) IN
       /\ out' = Append(out, FoundLine(Len(inputs), k))
       /\ groups' = split_evenly(inputs, k)
       /\ idx' = 0
       /\ pc' = LoopPc(0, groups')

\* lib.rs 83-93: write_job_script for the group at idx
Emit ==
    /\ pc = "emit"
    /\ UNCHANGED <<pureVars, cliVars, prior, expanded, inputs, groups, idx, out, spawned>>
    /\ LET name == JobScriptName(cli.job_name_prefix, idx + 1)
           text == ScriptText(input_flag, groups[idx + 1], script_args)
           is_dir == \E e \in fs : e.name = name /\ e.kind = "dir"
       IN  \/ /\ Fail("Io")
              /\ UNCHANGED <<fs, hist>>
           \/ /\ ~is_dir
              /\ fs' = WriteFile(fs, name, text, ModeUnset)
              /\ Fail("Io")
              /\ UNCHANGED hist
           \/ /\ ~is_dir
              /\ fs' = WriteFile(fs, name, text, Mode755)
              /\ hist' = Append(hist, Event("emit", idx + 1))
              /\ pc' = AfterEmitPc(cli.dry_run)
              /\ UNCHANGED err

\* lib.rs 95-100: the dry-run line
DryRun ==
    /\ pc = "dryrun"
    /\ UNCHANGED <<pureVars, cliVars, prior, fs, expanded, inputs, groups, spawned, err>>
    /\ out' = Append(out, DryRunLine(cli.submit,
                                     JobScriptPath(cli.job_name_prefix, idx + 1)))
    /\ hist' = Append(hist, Event("dryrun", idx + 1))
    /\ idx' = idx + 1
    /\ pc' = LoopPc(idx + 1, groups)

\* lib.rs 102-103: submit_job for the group at idx
Submit ==
    /\ pc = "submit"
    /\ UNCHANGED <<pureVars, cliVars, prior, fs, expanded, inputs, groups, out>>
    /\ \E outcome \in SpawnOutcomes :
          LET path == JobScriptPath(cli.job_name_prefix, idx + 1)
              name == JobScriptName(cli.job_name_prefix, idx + 1)
              r == submit_job(cli.submit, path, outcome)
              child == [argv |-> r.argv,
                        script |-> {e \in fs : e.name = name},
                        status |-> outcome]
          IN  /\ spawned' = IF r.spawn THEN Append(spawned, child) ELSE spawned
              /\ IF r.result = "Ok"
                 THEN /\ hist' = Append(hist, Event("submitted", idx + 1))
                      /\ UNCHANGED err
                      /\ IF RemovesAfterSubmit(cli.keep)
                         THEN pc' = "remove" /\ UNCHANGED idx
                         ELSE idx' = idx + 1 /\ pc' = LoopPc(idx + 1, groups)
                 ELSE /\ hist' = Append(hist, Event("submit_failed", idx + 1))
                      /\ Fail(r.result)
                      /\ UNCHANGED idx

\* lib.rs 104: fs::remove_file of the submitted script
Remove ==
    /\ pc = "remove"
    /\ UNCHANGED <<pureVars, cliVars, prior, expanded, inputs, groups, out, spawned>>
    /\ LET name == JobScriptName(cli.job_name_prefix, idx + 1) IN
       \/ /\ Fail("Io")
          /\ UNCHANGED <<fs, hist, idx>>
       \/ /\ fs' = RemoveFile(fs, name)
          /\ hist' = Append(hist, Event("remove", idx + 1))
          /\ idx' = idx + 1
          /\ pc' = LoopPc(idx + 1, groups)
          /\ UNCHANGED err

Next == Validate \/ Cleanup \/ Split \/ Emit \/ DryRun \/ Submit \/ Remove

Spec == InitRun /\ [][Next]_vars

----------------------------------------------------------------------------
(* POSIX shell word rules (XCU 2.2, 2.3), the reference the quoter is       *)
(* checked against.  A character the shell would not take literally (an     *)
(* expansion, a glob, an operator) is recorded as Special.                  *)

Special == "<special>"

ShellOperators == {"*", "?", "[", "~", ";", "&", "|", "<", ">", "(", ")", "{", "}", "!"}

RECURSIVE PosixRun(_, _, _, _, _)
PosixRun(s, i, mode, cur, words) ==
    IF i > Len(s)
    THEN CASE mode \in {"skip", "comment"} -> [ok |-> TRUE, words |-> words]
           [] mode = "word" -> [ok |-> TRUE, words |-> Append(words, cur)]
           [] OTHER -> [ok |-> FALSE, words |-> <<>>]
    ELSE LET c == s[i] IN
         CASE mode = "skip" ->
                IF c \in Whitespace THEN PosixRun(s, i + 1, "skip", <<>>, words)
                ELSE IF c = "#" THEN PosixRun(s, i + 1, "comment", <<>>, words)
                ELSE PosixRun(s, i, "word", <<>>, words)
           [] mode = "comment" ->
                IF c = "\n" THEN PosixRun(s, i + 1, "skip", <<>>, words)
                ELSE PosixRun(s, i + 1, "comment", <<>>, words)
           [] mode = "word" ->
                IF c = "'" THEN PosixRun(s, i + 1, "single", cur, words)
                ELSE IF c = "\"" THEN PosixRun(s, i + 1, "double", cur, words)
                ELSE IF c = "\\"
                     THEN IF i + 1 > Len(s) THEN [ok |-> FALSE, words |-> <<>>]
                          ELSE IF s[i + 1] = "\n"
                               THEN PosixRun(s, i + 2, "word", cur, words)
                               ELSE PosixRun(s, i + 2, "word", Append(cur, s[i + 1]), words)
                ELSE IF c \in Whitespace
                     THEN PosixRun(s, i + 1, "skip", <<>>, Append(words, cur))
                ELSE IF c \in {"$", Backtick} \cup ShellOperators
                     THEN PosixRun(s, i + 1, "word", Append(cur, Special), words)
                ELSE PosixRun(s, i + 1, "word", Append(cur, c), words)
           [] mode = "single" ->
                IF c = "'" THEN PosixRun(s, i + 1, "word", cur, words)
                ELSE PosixRun(s, i + 1, "single", Append(cur, c), words)
           [] mode = "double" ->
                IF c = "\"" THEN PosixRun(s, i + 1, "word", cur, words)
                ELSE IF c \in {"$", Backtick}
                     THEN PosixRun(s, i + 1, "double", Append(cur, Special), words)
                ELSE IF c = "\\"
                     THEN IF i + 1 > Len(s) THEN [ok |-> FALSE, words |-> <<>>]
                          ELSE IF s[i + 1] \in {"$", Backtick, "\"", "\\"}
                               THEN PosixRun(s, i + 2, "double", Append(cur, s[i + 1]), words)
                          ELSE IF s[i + 1] = "\n"
                               THEN PosixRun(s, i + 2, "double", cur, words)
                          ELSE PosixRun(s, i + 2, "double", cur \o <<"\\", s[i + 1]>>, words)
                ELSE PosixRun(s, i + 1, "double", Append(cur, c), words)

PosixWords(s) == PosixRun(s, 1, "skip", <<>>, <<>>)

Chars(s) == {s[i] : i \in 1..Len(s)}

----------------------------------------------------------------------------
(* Claims about the quoter and the line formatter                           *)

\* "$N": a dollar sign, then decimal digits only, the number at least 1.
IsDollarN(flag) ==
    /\ Len(flag) >= 2
    /\ Head(flag) = "$"
    /\ \A i \in 2..Len(flag) : flag[i] \in Digits
    /\ \E i \in 2..Len(flag) : flag[i] # "0"

HasDollarOneToken(flag) ==
    LET t == parse_template_tokens(flag) IN
    \E i \in 1..Len(t) : Contains(t[i], <<"$", "1">>)

\* C6: every convention string is formatted by exactly one of the three
\* variants; it is a positional slot iff it is "$N" with N a decimal integer
\* >= 1, otherwise a template iff one of its shell-word tokens contains "$1",
\* otherwise a named flag.
C6_ClassificationByForm ==
    pc = "formatted" =>
        /\ branch \in {"slot", "template", "flag"}
        /\ (branch = "slot") <=> IsDollarN(input_flag)
        /\ (branch = "template") <=>
               (~IsDollarN(input_flag) /\ HasDollarOneToken(input_flag))
        /\ (branch = "flag") <=>
               (~IsDollarN(input_flag) /\ ~HasDollarOneToken(input_flag))

S3Inputs == {<<"o", "n", "e">>, <<"t", "w", "o">>}

IsS3 ==
    /\ pc = "formatted"
    /\ input_flag = S3Flag
    /\ script_args = <<>>
    /\ input \in S3Inputs

\* C7 as stated: in scenario S3 the worker gets two arguments, '-i x' and
\* '-o out/x.done', each single-quoted as one token.
C7_S3TwoQuotedArgs ==
    IsS3 =>
        /\ Len(args) = 2
        /\ line = <<"b", "a", "s", "h", " ", "/", "w", ".", "s", "h", " ", "'", "-", "i", " ">> \o input \o <<"'", " ", "'", "-", "o", " ", "o", "u", "t", "/">> \o input \o <<".", "d", "o", "n", "e", "'">>

\* C7 as amended: in scenario S3 the convention string is split into its four
\* shell words, so the worker gets four arguments, -i, x, -o and out/x.done,
\* none of which needs quotes.
C7_S3FourArgs ==
    IsS3 =>
        /\ args = <<<<"-", "i">>, input, <<"-", "o">>, <<"o", "u", "t", "/">> \o input \o <<".", "d", "o", "n", "e">>>>
        /\ line = <<"b", "a", "s", "h", " ", "/", "w", ".", "s", "h", " ", "-", "i", " ">> \o input \o <<" ", "-", "o", " ", "o", "u", "t", "/">> \o input \o <<".", "d", "o", "n", "e">>

C7_Witness == IsS3 /\ input = <<"t", "w", "o">>

\* The number a positional slot names: the digits after "$" and an optional "+".
SlotNumber(flag) ==
    LET t == Tail(flag) IN
    DecimalValue(IF t # <<>> /\ Head(t) = "+" THEN Tail(t) ELSE t)

C9_QuoterRoundTrip ==
    pc = "quoted" => PosixWords(quoted) = [ok |-> TRUE, words |-> <<str>>]

C9_Witness ==
    /\ pc = "quoted"
    /\ {"'", "$", " "} \subseteq Chars(str)
    /\ quoted # str

----------------------------------------------------------------------------
(* Claims about run                                                         *)

Has(ev, g) == \E j \in 1..Len(hist) : hist[j] = Event(ev, g)

RECURSIVE Concat(_)
Concat(ss) == IF ss = <<>> THEN <<>> ELSE Head(ss) \o Concat(Tail(ss))

Count(l, x) == Cardinality({i \in 1..Len(l) : l[i] = x})

\* Split has run: it prints the progress line first.
SplitDone == out # <<>>

\* C1: k' = min(k, n) contiguous groups, none empty, the first n mod k' of
\* size floor(n/k')+1 and the rest of size floor(n/k'), and their
\* concatenation in index order is the sorted input list, duplicates kept.
C1_PartitionBalance ==
    SplitDone =>
        LET n == Len(inputs)
            k == IF cli.batch < n THEN cli.batch ELSE n
        IN  /\ n >= 1 /\ k >= 1
            /\ Len(groups) = k
            /\ \A i \in 1..k :
                   /\ Len(groups[i]) >= 1
                   /\ Len(groups[i]) = (n \div k) + (IF i <= n % k THEN 1 ELSE 0)
            /\ \A i, j \in 1..k : Len(groups[i]) - Len(groups[j]) <= 1
            /\ Concat(groups) = inputs
            /\ \A i, j \in 1..n : i < j => ~StrLess(inputs[j], inputs[i])
            /\ \A x \in InputNames : Count(inputs, x) = Count(expanded, x)

C1_Witness ==
    /\ SplitDone
    /\ Len(inputs) = 3 /\ cli.batch = 2
    /\ expanded # inputs
    /\ Len(groups[1]) = 2 /\ Len(groups[2]) = 1

\* A script name of prefix P: "P-", four or more digits, ".batch.sh".
IsScriptNameOf(name, P) ==
    /\ Len(name) >= Len(P) + 1 + 4 + Len(BatchSuffix)
    /\ StartsWith(name, P \o <<"-">>)
    /\ EndsWith(name, BatchSuffix)
    /\ \A i \in (Len(P) + 2)..(Len(name) - Len(BatchSuffix)) : name[i] \in Digits

CleanupDone == Has("cleanup", 0)

\* C2: once the cleanup pass has run for prefix P, no script file of P left
\* by a prior run remains, and every other prior entry (a script of another
\* prefix Q, also one beginning with "P-", or a file with another
\* extension) is still there, unmodified.
C2_CleanupSpecificity ==
    CleanupDone =>
        \A e \in prior :
            IF e.kind = "file" /\ IsScriptNameOf(e.name, cli.job_name_prefix)
            THEN e \notin fs
            ELSE e \in fs

\* The script of group g as the current run writes it.
ScriptOf(g) ==
    FileEntry(JobScriptName(cli.job_name_prefix, g), "run",
              ScriptText(input_flag, groups[g], script_args), Mode755)

\* C3: when the submission of group i fails in a real run, the run ends at
\* once with an error: nothing of a group j > i was emitted or submitted, the
\* script of group i is on disk, and every group j < i was submitted.  A
\* child that exits non-zero is always such a failure.
C3_SubmitFailureAborts ==
    /\ \A i \in 1..Len(groups) :
           Has("submit_failed", i) =>
               /\ ~cli.dry_run
               /\ pc = "error" /\ err # ""
               /\ ~ENABLED Next
               /\ hist[Len(hist)] = Event("submit_failed", i)
               /\ \A j \in 1..Len(hist) : hist[j].g <= i
               /\ ScriptOf(i) \in fs
               /\ \A j \in 1..(i - 1) :
                      /\ Has("submitted", j)
                      /\ spawned[j].status = "exit_zero"
    /\ \A n \in 1..Len(spawned) :
           spawned[n].status = "exit_nonzero" =>
               /\ n = Len(spawned)
               /\ Has("submit_failed", n)
               /\ err = "SubmitFailed"

C3_Witness ==
    /\ pc = "error" /\ err = "SubmitFailed"
    /\ Len(groups) = 3
    /\ Has("submit_failed", 2)
    /\ Len(spawned) = 2

\* The dry-run line of group g, g < 10, for the prefix and output directory
\* of the model.
ExpectedDryRunLine(g) ==
    <<"[", "d", "r", "y", "-", "r", "u", "n", "]", " ">> \o cli.submit \o <<" ", ".", "b", "a", "t", "c", "h", "e", "l", "o", "r", "/">> \o cli.job_name_prefix
    \o <<"-", "0", "0", "0">> \o <<DigitChar(g)>> \o <<".", "b", "a", "t", "c", "h", ".", "s", "h">>

\* C4: a dry run never starts a child process; when it ends it has printed
\* exactly one "[dry-run] <submit> <quoted path>" line per group, and all k'
\* scripts are on disk, whatever keep is.
C4_DryRun ==
    cli.dry_run =>
        /\ spawned = <<>>
        /\ pc = "done" =>
               LET k == IF cli.batch < Len(inputs) THEN cli.batch ELSE Len(inputs) IN
               /\ Len(out) = k + 1
               /\ \A g \in 1..k :
                      /\ out[g + 1] = ExpectedDryRunLine(g)
                      /\ ScriptOf(g) \in fs

C4_Witness ==
    /\ pc = "done"
    /\ cli.dry_run /\ ~cli.keep
    /\ cli.submit = <<"s", "b", "a", "t", "c", "h", " ", "-", "q">>
    /\ Len(groups) = 2

\* P-*.batch.sh
MatchesGlob(name, P) ==
    /\ Len(name) >= Len(P) + 1 + Len(BatchSuffix)
    /\ StartsWith(name, P \o <<"-">>)
    /\ EndsWith(name, BatchSuffix)

BatchFiles == {e \in fs : e.kind = "file" /\ MatchesGlob(e.name, cli.job_name_prefix)}

\* The current run's script of group g is in the output directory.
OnDisk(g) ==
    \E e \in fs : /\ e.name = JobScriptName(cli.job_name_prefix, g)
                  /\ e.kind = "file"
                  /\ e.origin = "run"

\* C5: in a real run the script of group g is deleted only right after its
\* own submission succeeded and only when keep is unset, and until then it
\* is on disk; a fully successful run ends with no <prefix>-*.batch.sh file
\* when keep is unset and with exactly the k' scripts when keep is set.
C5_ScriptLifecycle ==
    ~cli.dry_run =>
        /\ \A j \in 1..Len(hist) :
               hist[j].ev = "remove" =>
                   /\ ~cli.keep
                   /\ j > 1 /\ hist[j - 1] = Event("submitted", hist[j].g)
        /\ \A g \in 1..Len(groups) :
               /\ Has("emit", g) => (OnDisk(g) <=> ~Has("remove", g))
               /\ (Has("submitted", g) /\ ~cli.keep /\ pc \notin {"remove", "error"})
                      => Has("remove", g)
        /\ pc = "done" =>
               /\ {e.name : e \in BatchFiles} =
                      IF cli.keep
                      THEN {JobScriptName(cli.job_name_prefix, g) : g \in 1..Len(groups)}
                      ELSE {}
               /\ \A e \in BatchFiles : e.origin = "run"

C5_Witness ==
    /\ pc = "done"
    /\ ~cli.dry_run /\ ~cli.keep
    /\ Len(groups) = 2
    /\ \E e \in prior : e.name = <<"p", "-", "0", "0", "0", "2", ".", "b", "a", "t", "c", "h", ".", "s", "h">>
    /\ BatchFiles = {}

\* The step that completes group g before the next group is emitted.
Completion(g) ==
    IF cli.dry_run THEN Event("dryrun", g)
    ELSE IF cli.keep THEN Event("submitted", g)
    ELSE Event("remove", g)

\* C10: the cleanup pass comes first; groups are emitted and submitted in
\* increasing index order, group g+1 only after group g is complete (its
\* submission has succeeded); and the script a child process is handed is
\* the one the current run has just written for that group.
C10_EventOrder ==
    /\ \A j \in 1..Len(hist) :
           /\ hist[j].ev = "cleanup" => j = 1
           /\ hist[j].ev = "emit" =>
                  /\ j > 1
                  /\ hist[j - 1] = IF hist[j].g = 1 THEN Event("cleanup", 0)
                                   ELSE Completion(hist[j].g - 1)
                  /\ hist[j].g > 1 /\ ~cli.dry_run => Has("submitted", hist[j].g - 1)
           /\ hist[j].ev \in {"submitted", "submit_failed", "dryrun"} =>
                  j > 1 /\ hist[j - 1] = Event("emit", hist[j].g)
           /\ hist[j].ev \in {"submitted", "submit_failed"} => ~cli.dry_run
           /\ hist[j].ev = "dryrun" => cli.dry_run
    /\ \A n \in 1..Len(spawned) :
           /\ spawned[n].argv =
                  <<<<"s", "b", "a", "t", "c", "h">>, <<"-", "q">>, JobScriptPath(cli.job_name_prefix, n)>>
           /\ spawned[n].script = {ScriptOf(n)}
           /\ Has("emit", n)
           /\ n < Len(spawned) => spawned[n].status = "exit_zero"

C10_Witness ==
    /\ pc = "done"
    /\ ~cli.dry_run
    /\ Len(spawned) = 3
    /\ \E e \in prior : e.name = <<"p", "-", "0", "0", "0", "2", ".", "b", "a", "t", "c", "h", ".", "s", "h">>

====
